---- MODULE Spec2Model ----
(***************************************************************************)
(* Model of the gemi command-line client: the interactive chat session     *)
(* (cmd/chat.go: chatModel.Update / View run by the Bubble Tea event loop, *)
(* with the commands it returns running as separate goroutines) and the    *)
(* API client wrapper (internal/gemini/client.go).                         *)
(*                                                                         *)
(* Strings are sequences of tokens: a token is one character or one        *)
(* string literal of the source, so concatenation is \o, and HasPrefix /   *)
(* TrimPrefix work on the characters of the typed line.                    *)
(***************************************************************************)
EXTENDS Integers, Sequences, FiniteSets, TLC

\* ------------------------------------------------------------------ bounds
\* Lines submitted with Enter in one session (each starts at most one command).
MaxOps == 2

\* --------------------------------------------------------------- strings
ModelPrefix == <<"/", "m", "o", "d", "e", "l", " ">>
LineModels == <<"/", "m", "o", "d", "e", "l", "s">>
LineListModels == <<"/", "l", "i", "s", "t", "-", "m", "o", "d", "e", "l", "s">>
LineHelp == <<"/", "h", "e", "l", "p">>
LineQuit == <<"/", "q", "u", "i", "t">>
LineModelNoSpace == <<"/", "m", "o", "d", "e", "l">>
LineHi == <<"h", "i">>
NameA == <<"a">>
NameB == <<"b">>

\* chatCmd's --model flag default, the model the session starts with.
DefaultModel == <<"gemini-1.5-pro-latest">>
\* Models the backend serves; any other name is unknown to it.
KnownModels == {DefaultModel, NameA}

\* Values the editing keys can give the input widget (the widget itself is the
\* bubbles library's; the session only reads Value() and calls Reset()).
InputLines ==
    {<<>>, ModelPrefix \o NameA, ModelPrefix \o NameB, ModelPrefix, LineModels,
     LineListModels, LineHelp, LineQuit, LineModelNoSpace, LineHi}

HasPrefix(s, prefix) ==
    /\ Len(s) >= Len(prefix)
    /\ SubSeq(s, 1, Len(prefix)) = prefix

\* The prefix left in place.
TrimPrefix_Keep(s, prefix) == s

TrimPrefix(s, prefix) ==
    IF HasPrefix(s, prefix) THEN SubSeq(s, Len(prefix) + 1, Len(s)) ELSE s

\* ---------------------------------------------------------------- errors
NilErr == <<"<nil>">>
ErrEmptyModel == <<"model name cannot be empty">>
ErrListModels == <<"failed to list models: ", "rpc error">>
ErrSend == <<"rpc error">>

\* Text of the replies the backend can give to a prompt (no candidate gives "").
Responses == {<<"o", "k">>, <<>>}

HelpText == <<"# Available Commands\n\n...">>

\* ------------------------------------------------------------------ state
VARIABLES
    remoteCalls,   \* requests the client has sent to the backend, with the
                   \* catalog a ListModels request was answered with
    messages,      \* chatModel.messages: the history, [content, isUser, op]
    textInput,     \* chatModel.textInput.Value()
    err,           \* chatModel.err
    width,         \* chatModel.width
    height,        \* chatModel.height
    currentModel,  \* chatModel.currentModel of the program's model
    chatSession,   \* chatModel.chatSession of the program's model
    clientModel,   \* gemini.Client.model (shared through the *Client pointer)
    tasks,         \* commands returned by Update and not yet delivered
    nextOp,        \* number of lines submitted so far + 1
    nextSession,   \* number of sessions started so far
    closed,        \* tea.Quit was returned: the program has ended
    flags,         \* the command line: command, --prompt, --stream, ...
    cliPc,         \* where the command's Run function is
    out,           \* what the command has printed, in order
    buffer,        \* markdownStreamWriter.buffer
    fragments,     \* texts the stream iterator has delivered so far
    renderLog,     \* calls of ui.RenderMarkdownWithGlamour and their outcome
    writeResult,   \* (n, err) the last markdownStreamWriter.Write returned
    listedModels,       \* models, as client.ListModels gave them to modelsCmd.Run
    execErr,       \* what cmd.Execute returned to main
    exitCode       \* the status the process exited with; -1 while it runs

chatVars == <<remoteCalls, messages, textInput, err, width, height, currentModel, chatSession,
              clientModel, tasks, nextOp, nextSession, closed>>

cliVars == <<flags, cliPc, out, buffer, fragments, renderLog, writeResult,
             listedModels, execErr, exitCode>>

vars == <<chatVars, cliVars>>

\* A session handle: StartChat binds it to the client's model of that moment.
Session(n, model) == [id |-> n, model |-> model]

NoMsg == [type |-> "none", content |-> <<>>]
ResponseMsg(content) == [type |-> "response", content |-> content]
ErrorMsg(e) == [type |-> "error", content |-> e]

\* The window sizes a tea.WindowSizeMsg can report, as <<width, height>>.
WindowSizes == {<<80, 24>>, <<40, 9>>}

\* ------------------------------------------------------------ API client
\* SwitchModel assigning c.model before it validates the name.
SwitchModel_AssignFirst(model, modelName) ==
    [err |-> IF modelName = <<>> THEN ErrEmptyModel ELSE NilErr, model |-> modelName]

\* Client.SwitchModel: the error it returns and the client's model afterwards.
\* GenerativeModel(name) builds the handle locally and cannot fail.
SwitchModel(model, modelName) ==
    IF modelName = <<>>
    THEN [err |-> ErrEmptyModel, model |-> model]
    ELSE [err |-> NilErr, model |-> modelName]

\* Client.StartChat: a new session of the client's current model.
StartChat(model, n) == Session(n, model)

\* ChatSession.SendMessage followed by the extraction of the text parts: the
\* messages the prompt command can return.  The backend answers only for a
\* model it knows; any call can fail in transport.
SendMessage(session, userInput) ==
    {ErrorMsg(ErrSend)} \cup
    (IF session.model \in KnownModels
     THEN {ResponseMsg(r) : r \in Responses}
     ELSE {})

\* genai.ModelInfo, the fields the listings read.
ModelInfo(name, base, version) ==
    [Name |-> name, BaseModelID |-> base, Version |-> version]

ModelsSlash == <<"m", "o", "d", "e", "l", "s", "/">>
InfoA1 == ModelInfo(ModelsSlash \o <<"a", "-", "1">>, <<"a">>, <<"0", "0", "1">>)
InfoA2 == ModelInfo(ModelsSlash \o <<"a", "-", "2">>, <<"a">>, <<"0", "0", "2">>)
InfoB1 == ModelInfo(ModelsSlash \o <<"b", "-", "1">>, <<"b">>, <<"0", "0", "1">>)

\* The catalogs the backend can return, in the order it returns them.
Catalogs == {<<InfoB1, InfoA2, InfoA1>>, <<InfoA1, InfoB1>>}

\* Client.ListModels: the catalog, or the error of a failed page fetch.
ListModels ==
    {[err |-> ErrListModels, models |-> <<>>]}
    \cup {[err |-> NilErr, models |-> c] : c \in Catalogs}

\* The characters of the catalogs in byte order, which is how Go compares strings.
ByteOrder == <<"-", "/", "0", "1", "2", "a", "b", "d", "e", "l", "m", "o", "s">>

Byte(c) == CHOOSE i \in 1..Len(ByteOrder) : ByteOrder[i] = c

\* a < b on Go strings.
RECURSIVE StrLess(_, _)
StrLess(a, b) ==
    IF b = <<>> THEN FALSE
    ELSE IF a = <<>> THEN TRUE
    ELSE IF Head(a) = Head(b) THEN StrLess(Tail(a), Tail(b))
    ELSE Byte(Head(a)) < Byte(Head(b))

\* parts := strings.Split(name, "/"); parts[len(parts)-1]
RECURSIVE LastPart(_)
LastPart(name) ==
    IF \E i \in 1..Len(name) : name[i] = "/"
    THEN LastPart(Tail(name))
    ELSE name

\* xs without its element at index i.
RemoveAt(xs, i) == [j \in 1..(Len(xs) - 1) |-> IF j < i THEN xs[j] ELSE xs[j + 1]]

\* The strings left in the order the map iteration or the catalog gave them.
SortStrings_Unsorted(xs) == xs

\* sort.Strings(xs): ascending; equal strings are indistinguishable.
RECURSIVE SortStrings(_)
SortStrings(xs) ==
    IF xs = <<>> THEN <<>>
    ELSE LET i == CHOOSE k \in 1..Len(xs) :
                     \A j \in 1..Len(xs) : ~StrLess(xs[j], xs[k])
         IN  <<xs[i]>> \o SortStrings(RemoveAt(xs, i))

\* sort.Slice(xs, func(i, j) { return xs[i].Name < xs[j].Name }).  The catalogs
\* hold no two entries of one name, so the order is unique.
RECURSIVE SortByName(_)
SortByName(xs) ==
    IF xs = <<>> THEN <<>>
    ELSE LET i == CHOOSE k \in 1..Len(xs) :
                     \A j \in 1..Len(xs) : ~StrLess(xs[j].Name, xs[k].Name)
         IN  <<xs[i]>> \o SortByName(RemoveAt(xs, i))

SetToSeq(S) ==
    CHOOSE f \in [1..Cardinality(S) -> S] : \A x \in S : \E i \in DOMAIN f : f[i] = x

\* The sorted keys of modelsByBase.
BaseModelIDs(models) ==
    SortStrings(SetToSeq({models[i].BaseModelID : i \in 1..Len(models)}))

\* The models of one base, in the order of models: what the loop over models
\* appends to modelsByBase[baseID].
RECURSIVE GroupOf(_, _)
GroupOf(models, baseID) ==
    IF models = <<>> THEN <<>>
    ELSE (IF Head(models).BaseModelID = baseID THEN <<Head(models)>> ELSE <<>>)
         \o GroupOf(Tail(models), baseID)

RECURSIVE Concat(_)
Concat(seqs) == IF seqs = <<>> THEN <<>> ELSE Head(seqs) \o Concat(Tail(seqs))

\* The sorted model names of one group of the chat listing.
ChatGroupNames(models, baseID) ==
    LET group == GroupOf(models, baseID) IN
      SortStrings([k \in 1..Len(group) |-> LastPart(group[k].Name)])

ChatBullet(name) == <<"* **">> \o name \o <<"**\n">>

\* The Markdown the /models command of the chat builds.
ChatListing(models, current) ==
    <<"# Available Models\n\n">>
    \o Concat([g \in 1..Len(BaseModelIDs(models)) |->
          LET baseID == BaseModelIDs(models)[g]
              modelNames == ChatGroupNames(models, baseID)
          IN  <<"## ">> \o baseID \o <<"\n\n">>
              \o Concat([k \in 1..Len(modelNames) |-> ChatBullet(modelNames[k])])
              \o <<"\n">>])
    \o <<"**Current model:** ">> \o current
    \o <<"\n\n", "To change models, type: /model MODEL_NAME">>

\* The message the /models command of the chat returns when ListModels
\* returned r.
ListModelsCmd(r, current) ==
    IF r.err # NilErr THEN ErrorMsg(r.err)
    ELSE ResponseMsg(ChatListing(r.models, current))

\* ListModels is a call on the client, not on a chat session.
NoSession == Session(-1, <<>>)

\* A request to the backend: cs.SendMessage(ctx, genai.Text(text)) on a chat
\* session, or the iteration of client.ListModels(ctx).
RemoteCall(op, call, session, text, models) ==
    [op |-> op, call |-> call, session |-> session, text |-> text, models |-> models]

\* ----------------------------------------------------------- chat session
\* The command chain without its /quit branch: /quit is a prompt.
Classify_NoQuit(userInput) ==
    IF HasPrefix(userInput, ModelPrefix) THEN "switch"
    ELSE IF userInput = LineModels \/ userInput = LineListModels THEN "list"
    ELSE IF userInput = LineHelp THEN "help"
    ELSE "prompt"

\* The command chain with the /model prefix tested without its space.
Classify_PrefixNoSpace(userInput) ==
    IF HasPrefix(userInput, LineModelNoSpace) THEN "switch"
    ELSE IF userInput = LineModels \/ userInput = LineListModels THEN "list"
    ELSE IF userInput = LineHelp THEN "help"
    ELSE IF userInput = LineQuit THEN "quit"
    ELSE "prompt"

\* The branch of the command chain in Update's KeyEnter case.
Classify(userInput) ==
    IF HasPrefix(userInput, ModelPrefix) THEN "switch"
    ELSE IF userInput = LineModels \/ userInput = LineListModels THEN "list"
    ELSE IF userInput = LineHelp THEN "help"
    ELSE IF userInput = LineQuit THEN "quit"
    ELSE "prompt"

\* The closure Update returns: it captures userInput, newModel and the local
\* copy m of the model (value receiver), of which it uses client (shared
\* pointer), chatSession and currentModel.
NewTask(op, userInput) ==
    [op |-> op,
     kind |-> Classify(userInput),
     userInput |-> userInput,
     newModel |-> IF Classify(userInput) = "switch"
                  THEN TrimPrefix(userInput, ModelPrefix)
                  ELSE <<>>,
     mChatSession |-> chatSession,
     mCurrentModel |-> currentModel,
     pc |-> "run",
     msg |-> NoMsg]

UserMessage(op, userInput) == [content |-> userInput, isUser |-> TRUE, op |-> op]
ReplyMessage(op, content) == [content |-> content, isUser |-> FALSE, op |-> op]

\* A single-flight guard the code does not have: a line submitted while a
\* command is outstanding starts nothing.
StartCmd_SingleFlight(t) == tasks' = IF tasks = {} THEN {t} ELSE tasks

\* Update returns the closure as its tea.Cmd; the runtime runs every command
\* in a goroutine of its own, whatever is still running.
StartCmd(t) == tasks' = tasks \cup {t}

\* The echo left to the command's completion instead of done at submission.
AppendUser_Deferred(op, userInput) == messages' = messages

\* m.messages = append(m.messages, message{content: userInput, isUser: true})
AppendUser(op, userInput) == messages' = Append(messages, UserMessage(op, userInput))

\* Write has not been called.
NoWrite == [n |-> 0, err |-> NilErr]

\* A command with nothing printed yet.
CliFresh ==
    /\ out = <<>>
    /\ buffer = <<>>
    /\ fragments = <<>>
    /\ renderLog = <<>>
    /\ writeResult = NoWrite
    /\ listedModels = <<>>
    /\ execErr = NilErr
    /\ exitCode = -1

\* The chat command with its flags parsed, at the call of p.Run().
CliChat ==
    /\ flags = [cmd |-> "chat", prompt |-> <<>>, stream |-> FALSE,
                listModels |-> FALSE, apiKey |-> TRUE, outputFile |-> FALSE,
                usageError |-> FALSE]
    /\ cliPc = "chat"
    /\ CliFresh

\* initialChatModel(client, client.StartChat()).
ChatInit ==
    /\ remoteCalls = {}
    /\ messages = <<>>
    /\ textInput = <<>>
    /\ err = NilErr
    /\ width = 80
    /\ height = 24
    /\ currentModel = DefaultModel
    /\ clientModel = DefaultModel
    /\ chatSession = StartChat(DefaultModel, 0)
    /\ tasks = {}
    /\ nextOp = 1
    /\ nextSession = 1
    /\ closed = FALSE

Init == ChatInit /\ CliChat

\* Update(tea.KeyMsg) for an editing key: falls through to textInput.Update.
\* (No line is typed once MaxOps lines have been submitted.)
KeyEdit ==
    /\ ~closed
    /\ nextOp <= MaxOps
    /\ \E v \in InputLines \ {textInput} : textInput' = v
    /\ UNCHANGED <<cliVars, remoteCalls, messages, err, width, height, currentModel, chatSession,
                   clientModel, tasks, nextOp, nextSession, closed>>

\* Update(tea.KeyMsg{Type: KeyCtrlC}).
KeyCtrlC ==
    /\ ~closed
    /\ closed' = TRUE
    /\ UNCHANGED <<cliVars, remoteCalls, messages, textInput, err, width, height, currentModel,
                   chatSession, clientModel, tasks, nextOp, nextSession>>

\* An empty line submitted like any other: echoed and sent as a prompt.
EnterEmpty_Submits ==
    /\ AppendUser(nextOp, textInput)
    /\ nextOp' = nextOp + 1
    /\ StartCmd(NewTask(nextOp, textInput))
    /\ UNCHANGED <<cliVars, remoteCalls, textInput, err, width, height, currentModel,
                   chatSession, clientModel, nextSession, closed>>

\* if userInput == "" { return m, nil }
EnterEmpty == UNCHANGED vars

\* Update(tea.KeyMsg{Type: KeyEnter}).
KeyEnter ==
    /\ ~closed
    /\ nextOp <= MaxOps
    /\ IF textInput = <<>>
       THEN EnterEmpty
       ELSE /\ AppendUser(nextOp, textInput)
            /\ textInput' = <<>>
            /\ nextOp' = nextOp + 1
            /\ IF Classify(textInput) = "quit"
               THEN closed' = TRUE /\ UNCHANGED tasks
               ELSE StartCmd(NewTask(nextOp, textInput)) /\ UNCHANGED closed
            /\ UNCHANGED <<cliVars, remoteCalls, err, width, height, currentModel, chatSession,
                           clientModel, nextSession>>

\* Update(tea.WindowSizeMsg).
WindowSize ==
    /\ ~closed
    /\ \E s \in WindowSizes :
          /\ <<width, height>> # s
          /\ width' = s[1]
          /\ height' = s[2]
    /\ UNCHANGED <<cliVars, remoteCalls, messages, textInput, err, currentModel, chatSession,
                   clientModel, tasks, nextOp, nextSession, closed>>

\* ------------------------------------------------- the command goroutines
Replace(t, u) == tasks' = (tasks \ {t}) \cup {u}

Finished(t, msg) == [t EXCEPT !.pc = "done", !.msg = msg]

\* The first step of a command: everything up to its first return, or, for a
\* successful switch, up to the return of SwitchModel.
RunCmd(t) ==
    /\ ~closed
    /\ t.pc = "run"
    /\ CASE t.kind = "switch" ->
              LET r == SwitchModel(clientModel, t.newModel) IN
                /\ clientModel' = r.model
                /\ Replace(t, IF r.err # NilErr
                              THEN Finished(t, ErrorMsg(r.err))
                              ELSE [t EXCEPT !.pc = "switched"])
                /\ UNCHANGED remoteCalls
         [] t.kind = "list" ->
              /\ \E r \in ListModels :
                    /\ Replace(t, Finished(t, ListModelsCmd(r, t.mCurrentModel)))
                    /\ remoteCalls' = remoteCalls \cup
                          {RemoteCall(t.op, "ListModels", NoSession, <<>>, r.models)}
              /\ UNCHANGED clientModel
         [] t.kind = "help" ->
              /\ Replace(t, Finished(t, ResponseMsg(HelpText)))
              /\ UNCHANGED <<clientModel, remoteCalls>>
         [] t.kind = "prompt" ->
              /\ \E msg \in SendMessage(t.mChatSession, t.userInput) :
                    Replace(t, Finished(t, msg))
              /\ remoteCalls' = remoteCalls \cup
                    {RemoteCall(t.op, "SendMessage", t.mChatSession, t.userInput, <<>>)}
              /\ UNCHANGED clientModel
    /\ UNCHANGED <<cliVars, messages, textInput, err, width, height, currentModel,
                   chatSession, nextOp, nextSession, closed>>

\* The rest of a successful switch: the closure assigns to its own copy of m.
SwitchedCmd(t) ==
    /\ ~closed
    /\ t.pc = "switched"
    /\ Replace(t, [t EXCEPT !.mChatSession = StartChat(clientModel, nextSession),
                            !.mCurrentModel = t.newModel,
                            !.pc = "done",
                            !.msg = ResponseMsg(<<"Switched to model: ">> \o t.newModel)])
    /\ nextSession' = nextSession + 1
    /\ UNCHANGED <<cliVars, remoteCalls, messages, textInput, err, width, height, currentModel,
                   chatSession, clientModel, nextOp, closed>>

\* A successful switch starting the history afresh.
OnResponseMsg_ResetsOnSwitch(t) ==
    /\ messages' = IF t.kind = "switch"
                   THEN <<ReplyMessage(t.op, t.msg.content)>>
                   ELSE Append(messages, ReplyMessage(t.op, t.msg.content))
    /\ UNCHANGED err

\* A successful reply clearing the stored error.
OnResponseMsg_ClearsErr(t) ==
    /\ messages' = Append(messages, ReplyMessage(t.op, t.msg.content))
    /\ err' = NilErr

\* Update(responseMsg).
OnResponseMsg(t) ==
    /\ messages' = Append(messages, ReplyMessage(t.op, t.msg.content))
    /\ UNCHANGED err

\* An error reported in the history as well.
OnErrorMsg_Appends(t) ==
    /\ err' = t.msg.content
    /\ messages' = Append(messages, ReplyMessage(t.op, t.msg.content))

\* Update(errorMsg).
OnErrorMsg(t) ==
    /\ err' = t.msg.content
    /\ UNCHANGED messages

\* An error treated as fatal: Update returning tea.Quit for an errorMsg.
Deliver_QuitOnError(t) ==
    /\ ~closed
    /\ t.pc = "done"
    /\ tasks' = tasks \ {t}
    /\ IF t.msg.type = "response" THEN OnResponseMsg(t) ELSE OnErrorMsg(t)
    /\ closed' = (t.msg.type = "error")
    /\ UNCHANGED <<cliVars, remoteCalls, textInput, width, height, currentModel, chatSession,
                   clientModel, nextOp, nextSession>>

\* The runtime sends the message a command returned to Update, which handles
\* it and passes it on to textInput.Update (no effect on the value).
Deliver(t) ==
    /\ ~closed
    /\ t.pc = "done"
    /\ tasks' = tasks \ {t}
    /\ IF t.msg.type = "response" THEN OnResponseMsg(t) ELSE OnErrorMsg(t)
    /\ UNCHANGED <<cliVars, remoteCalls, textInput, width, height, currentModel, chatSession,
                   clientModel, nextOp, nextSession, closed>>

Next ==
    \/ KeyEdit
    \/ KeyCtrlC
    \/ KeyEnter
    \/ WindowSize
    \/ \E t \in tasks : RunCmd(t)
    \/ \E t \in tasks : SwitchedCmd(t)
    \/ \E t \in tasks : Deliver(t)

Spec == Init /\ [][Next]_vars

\* ------------------------------------------------- one-shot commands
\* Fragments one stream delivers at most.
MaxFragments == 3

\* The prompt given with --prompt.
PromptText == <<"h", "i">>

\* Texts one response of the stream can carry.
Fragments == {<<"#", " ", "a">>, <<"b">>, <<>>}

Item(kind, text) == [kind |-> kind, text |-> text]

ErrorItem(text) == Item("error", <<"ErrorPrefix">> \o text)

\* One call of ui.RenderMarkdownWithGlamour, as the log holds it.
RenderCall(site, markdown, failed) ==
    [site |-> site, markdown |-> markdown, failed |-> failed]

ErrRender == <<"failed to render markdown: ", "renderer error">>

\* Client.GenerateText: the text of the response, or the wrapped error.
GenerateText ==
    {[err |-> <<"failed to generate content: ", "rpc error">>, text |-> <<>>]}
    \cup {[err |-> NilErr, text |-> r] : r \in Responses}

\* The command lines of generate and models.
CliFlags ==
    [cmd : {"generate", "models"},
     prompt : {<<>>, PromptText},
     stream : BOOLEAN,
     listModels : BOOLEAN,
     apiKey : BOOLEAN,
     outputFile : BOOLEAN,
     usageError : BOOLEAN]

CliInit ==
    /\ ChatInit
    /\ flags \in CliFlags
    /\ cliPc = "start"
    /\ CliFresh

\* rootCmd.Execute finds the command line malformed (an unknown flag or
\* command): cobra prints the error, runs no command and returns the error.
UsageError ==
    /\ cliPc = "start"
    /\ flags.usageError
    /\ execErr' = <<"unknown flag">>
    /\ out' = <<Item("text", <<"Error: ", "unknown flag">>)>>
    /\ cliPc' = "done"
    /\ UNCHANGED <<chatVars, flags, buffer, fragments, renderLog, writeResult,
                   listedModels, exitCode>>

\* main: Execute has returned; os.Exit(1) when it returned an error.
Exit ==
    /\ cliPc = "done"
    /\ cliPc' = "exited"
    /\ exitCode' = IF execErr # NilErr THEN 1 ELSE 0
    /\ out' = IF execErr # NilErr THEN Append(out, Item("text", execErr)) ELSE out
    /\ UNCHANGED <<chatVars, flags, buffer, fragments, renderLog, writeResult,
                   listedModels, execErr>>

\* Whether the invocation ends up in modelsCmd.Run.
RunsModels == flags.cmd = "models" \/ flags.listModels

\* getApiKey fails, or gemini.NewClient does: the line Run prints before it returns.
SetupError(clientFails) ==
    IF ~flags.apiKey
    THEN <<ErrorItem(<<"no API key provided. Use --api-key flag or set GEMINI_API_KEY environment variable">>)>>
    ELSE IF clientFails
    THEN <<ErrorItem(<<"Failed to initialize Gemini client: ", "failed to create Gemini client">>)>>
    ELSE <<>>

\* (The code fence is written <fence>: a TLA+ string cannot hold a backquote.)
PromptMarkdown ==
    <<"# Prompt\n\n<fence>\n">> \o flags.prompt \o <<"\n<fence>\n\n# Response\n">>

\* generateCmd.Run printing the prompt: rendered, or plain when rendering fails.
PromptHeader(renderFails) ==
    IF renderFails
    THEN <<ErrorItem(<<"Failed to render markdown: ">> \o ErrRender),
           Item("raw", <<"Prompt: ">> \o flags.prompt \o <<"\n\nResponse:">>)>>
    ELSE <<Item("styled", PromptMarkdown)>>

\* generateCmd.Run printing the response of GenerateText.
ResponseOutput(result, renderFails) ==
    IF renderFails
    THEN <<ErrorItem(<<"Failed to render markdown: ">> \o ErrRender),
           Item("raw", result)>>
    ELSE <<Item("styled", result)>>

\* generateCmd.Run saving the response: os.WriteFile succeeds or fails.
SaveOutput(saveFails) ==
    IF ~flags.outputFile \/ flags.stream THEN <<>>
    ELSE IF saveFails THEN <<ErrorItem(<<"Error saving to file: ", "write error">>)>>
    ELSE <<Item("text", <<"SuccessPrefix", "Response saved to ", "FILE">>)>>

\* generateCmd.Run, up to its return or, with --stream, up to the call of
\* GenerateTextStream.
GenerateRun ==
    /\ cliPc = "start"
    /\ flags.cmd = "generate"
    /\ ~flags.usageError
    /\ ~RunsModels
    /\ \E clientFails \in BOOLEAN, headerFails \in BOOLEAN, respFails \in BOOLEAN,
          saveFails \in BOOLEAN, gen \in GenerateText :
         IF flags.prompt = <<>>
         THEN /\ out' = <<ErrorItem(<<"Prompt is required. Use --prompt or -p flag.">>)>>
              /\ cliPc' = "done"
              /\ UNCHANGED renderLog
         ELSE IF SetupError(clientFails) # <<>>
         THEN /\ out' = SetupError(clientFails)
              /\ cliPc' = "done"
              /\ UNCHANGED renderLog
         ELSE IF flags.stream
         THEN /\ out' = PromptHeader(headerFails)
              /\ renderLog' = <<RenderCall("prompt", PromptMarkdown, headerFails)>>
              /\ cliPc' = "streaming"
         ELSE IF gen.err # NilErr
         THEN /\ out' = PromptHeader(headerFails)
                          \o <<ErrorItem(<<"Error generating response: ">> \o gen.err)>>
              /\ renderLog' = <<RenderCall("prompt", PromptMarkdown, headerFails)>>
              /\ cliPc' = "done"
         ELSE /\ out' = PromptHeader(headerFails)
                          \o ResponseOutput(gen.text, respFails)
                          \o SaveOutput(saveFails)
              /\ renderLog' = <<RenderCall("prompt", PromptMarkdown, headerFails),
                                RenderCall("response", gen.text, respFails)>>
              /\ cliPc' = "done"
    /\ UNCHANGED <<chatVars, flags, buffer, fragments, writeResult, listedModels,
                   execErr, exitCode>>

\* A render failure handed back to the caller as Write's error.
WriteReturn_RenderError(p, renderFails) ==
    [n |-> Len(p), err |-> IF renderFails THEN ErrRender ELSE NilErr]

\* return len(p), nil
WriteReturn(p, renderFails) == [n |-> Len(p), err |-> NilErr]

\* markdownStreamWriter.Write(p): the buffer grows by p and is printed whole,
\* rendered, or as it is when rendering fails.
Write(p, renderFails) ==
    /\ buffer' = buffer \o p
    /\ writeResult' = WriteReturn(p, renderFails)
    /\ renderLog' = Append(renderLog, RenderCall("stream", buffer', renderFails))
    /\ out' = out \o <<Item("text", <<"<clear line>">>),
                       IF renderFails THEN Item("raw", buffer')
                                      ELSE Item("styled", buffer')>>

\* One turn of the loop of Client.GenerateTextStream: iter.Next gives a
\* response, whose text goes to the writer, or io.EOF, or an error.
\* The turn starts where fmt.Fprint(writer, text) of the turn before returned:
\* an error of the writer ends the stream.
StreamNext ==
    /\ cliPc = "streaming"
    /\ IF writeResult.err # NilErr
       THEN /\ out' = Append(out, ErrorItem(<<"Error generating response: ",
                                              "failed to write response: ">>
                                              \o writeResult.err))
            /\ cliPc' = "done"
            /\ UNCHANGED <<buffer, fragments, renderLog, writeResult>>
       ELSE \E ev \in {"text", "eof", "error"} :
         CASE ev = "text" ->
                /\ Len(fragments) < MaxFragments
                /\ \E p \in Fragments, renderFails \in BOOLEAN :
                      /\ fragments' = Append(fragments, p)
                      /\ Write(p, renderFails)
                /\ UNCHANGED cliPc
           [] ev = "eof" ->
                /\ out' = Append(out, Item("text", <<"\n">>))
                /\ cliPc' = "done"
                /\ UNCHANGED <<buffer, fragments, renderLog, writeResult>>
           [] ev = "error" ->
                /\ out' = Append(out, ErrorItem(<<"Error generating response: ",
                                                 "failed to get next response: ", "rpc error">>))
                /\ cliPc' = "done"
                /\ UNCHANGED <<buffer, fragments, renderLog, writeResult>>
    /\ UNCHANGED <<chatVars, flags, listedModels, execErr, exitCode>>

\* One entry of a group of the models command.
ModelEntry(model) == [Name |-> LastPart(model.Name), Version |-> model.Version]

ModelsGroup(models, baseID) ==
    LET group == GroupOf(models, baseID) IN
      SortByName([k \in 1..Len(group) |-> ModelEntry(group[k])])

ModelsBullet(e) == <<"* **">> \o e.Name \o <<"** (version: ">> \o e.Version \o <<")\n">>

\* The Markdown modelsCmd.Run builds from the catalog.
ModelsMarkdown(catalog) ==
    LET models == SortByName(catalog)
        ids == BaseModelIDs(models) IN
      Concat([g \in 1..Len(ids) |->
          (IF g > 1 THEN <<"---\n\n">> ELSE <<>>)
          \o <<"# ">> \o ids[g] \o <<"\n\n">>
          \o Concat([k \in 1..Len(ModelsGroup(models, ids[g])) |->
                        ModelsBullet(ModelsGroup(models, ids[g])[k])])
          \o <<"\n">>])
      \o <<"# Usage Instructions\n\n...">>

\* The rendering step of modelsCmd.Run: a failure prints the error and returns.
ModelsOutput(markdown, renderFails) ==
    IF renderFails
    THEN <<ErrorItem(<<"Failed to render markdown: ">> \o ErrRender)>>
    ELSE <<Item("styled", markdown)>>

\* modelsCmd.Run, also reached through --list-models.
ModelsRun ==
    /\ cliPc = "start"
    /\ ~flags.usageError
    /\ RunsModels
    /\ \E clientFails \in BOOLEAN, renderFails \in BOOLEAN, r \in ListModels :
         IF SetupError(clientFails) # <<>>
         THEN /\ out' = SetupError(clientFails)
              /\ UNCHANGED <<renderLog, listedModels>>
         ELSE IF r.err # NilErr
         THEN /\ out' = <<ErrorItem(<<"Failed to list models: ">> \o r.err)>>
              /\ UNCHANGED <<renderLog, listedModels>>
         ELSE /\ listedModels' = r.models
              /\ out' = <<Item("title", <<" Available Gemini Models ">>)>>
                          \o ModelsOutput(ModelsMarkdown(r.models), renderFails)
              /\ renderLog' = <<RenderCall("models", ModelsMarkdown(r.models), renderFails)>>
    /\ cliPc' = "done"
    /\ UNCHANGED <<chatVars, flags, buffer, fragments, writeResult, execErr, exitCode>>

CliNext ==
    \/ UsageError
    \/ GenerateRun
    \/ StreamNext
    \/ ModelsRun
    \/ Exit

SpecCli == CliInit /\ [][CliNext]_vars

\* ------------------------------------------------------- the whole program
\* chatCmd's flags: --model keeps its default, --list-models is given or not.
ChatFlags ==
    [cmd : {"chat"},
     prompt : {<<>>},
     stream : {FALSE},
     listModels : BOOLEAN,
     apiKey : BOOLEAN,
     outputFile : {FALSE},
     usageError : BOOLEAN]

\* main is entered with the command line of any of the three commands.
ProgramInit ==
    /\ ChatInit
    /\ flags \in CliFlags \cup ChatFlags
    /\ cliPc = "start"
    /\ CliFresh

\* chatCmd.Run up to p.Run(): a setup failure is printed and Run returns,
\* otherwise the chat session starts from initialChatModel.
ChatRun ==
    /\ cliPc = "start"
    /\ flags.cmd = "chat"
    /\ ~flags.usageError
    /\ ~RunsModels
    /\ \E clientFails \in BOOLEAN :
         IF SetupError(clientFails) # <<>>
         THEN out' = SetupError(clientFails) /\ cliPc' = "done"
         ELSE out' = out /\ cliPc' = "chat"
    /\ UNCHANGED <<chatVars, flags, buffer, fragments, renderLog, writeResult,
                   listedModels, execErr, exitCode>>

\* p.Run() returns once Update has returned tea.Quit, with or without an
\* error of the terminal; chatCmd.Run prints the error and returns.
ChatExit ==
    /\ cliPc = "chat"
    /\ closed
    /\ \E runFails \in BOOLEAN :
         out' = IF runFails
                THEN Append(out, ErrorItem(<<"Error running chat: ", "terminal error">>))
                ELSE out
    /\ cliPc' = "done"
    /\ UNCHANGED <<chatVars, flags, buffer, fragments, renderLog, writeResult,
                   listedModels, execErr, exitCode>>

\* The chat session runs while p.Run() does.
ChatNext == cliPc = "chat" /\ Next

ProgramNext ==
    \/ CliNext
    \/ ChatRun
    \/ ChatNext
    \/ ChatExit

SpecProgram == ProgramInit /\ [][ProgramNext]_vars

\* ------------------------------------------------------------------- View
\* Go's integer division truncates toward zero.
GoDiv(a, b) == IF a >= 0 THEN a \div b ELSE -((-a) \div b)

\* The title line of View.
ViewTitle == Item("title", <<" Gemini Chat - ">> \o currentModel \o <<" ">>)

\* View's first displayed index (1-based here): only the most recent
\* availableHeight/2 messages are shown.
ViewStartIdx ==
    LET availableHeight == height - 7
        n == Len(messages) IN
      IF n > GoDiv(availableHeight, 2) THEN n - GoDiv(availableHeight, 2) + 1 ELSE 1

\* What View writes for one message; renderFails is the outcome of
\* ui.RenderMarkdownWithGlamour for it.
ViewMessage(msg, renderFails) ==
    IF msg.isUser
    THEN <<Item("user", msg.content)>>
    ELSE IF renderFails
         THEN <<ErrorItem(<<"Failed to render markdown: ">> \o ErrRender),
                Item("raw", msg.content)>>
         ELSE <<Item("styled", msg.content)>>

RECURSIVE ViewMessages(_, _)
ViewMessages(i, renderFails) ==
    IF i > Len(messages) THEN <<>>
    ELSE ViewMessage(messages[i], renderFails) \o ViewMessages(i + 1, renderFails)

\* chatModel.View, as the sequence of items it writes.
View(renderFails) ==
    <<ViewTitle>>
    \o (IF Len(messages) = 0
        THEN <<Item("hint", <<"Start chatting with Gemini AI...">>),
               Item("hint", <<"Type /help to see available commands">>)>>
        ELSE ViewMessages(ViewStartIdx, renderFails))
    \o (IF err # NilErr THEN <<ErrorItem(err)>> ELSE <<>>)
    \o <<Item("input", textInput)>>

\* ------------------------------------------------------- reading a state
\* The line of history entry i that a command reply belongs to is found by the
\* op tag, which the model adds to message and command; the code has no such
\* field and nothing in the model's behaviour reads it.
UserIndex(op) ==
    CHOOSE i \in 1..Len(messages) : messages[i].isUser /\ messages[i].op = op

IsSwitched(msg) ==
    /\ ~msg.isUser
    /\ Len(msg.content) >= 1
    /\ msg.content[1] = "Switched to model: "

SwitchedName(msg) == Tail(msg.content)

SwitchedIdx == {i \in 1..Len(messages) : IsSwitched(messages[i])}

SetMax(S) == CHOOSE x \in S : \A y \in S : y <= x

\* Steps of the event loop and of the commands, recognised by their effect.
Submitted == nextOp' = nextOp + 1
Delivered(t) == t \in tasks /\ t.pc = "done" /\ t \notin tasks'
Ran(t, u) == t \in tasks /\ t.pc = "run" /\ u \in tasks' /\ u.op = t.op /\ u.pc # "run"
CommandStep == \E t \in tasks : \E u \in tasks' : u.op = t.op /\ u.pc # t.pc

\* ---------------------------------------------------------------- claims

\* C1: after a /model NAME command has completed successfully, every prompt
\* submitted afterwards is sent through a session started after the switch and
\* bound to NAME, not through the session that existed before.
C1_PromptUsesNewSession ==
    \A t \in tasks :
      LET before == {i \in SwitchedIdx : i < UserIndex(t.op)} IN
        (t.kind = "prompt" /\ before # {}) =>
           /\ t.mChatSession # StartChat(DefaultModel, 0)
           /\ t.mChatSession.model = SwitchedName(messages[SetMax(before)])

\* C2: after a /model NAME command has completed successfully, the session's
\* current model name, as the title bar shows it, is NAME.
C2_CurrentModelIsSwitched ==
    SwitchedIdx # {} =>
       LET name == SwitchedName(messages[SetMax(SwitchedIdx)]) IN
         /\ currentModel = name
         /\ View(FALSE)[1] = Item("title", <<" Gemini Chat - ">> \o name \o <<" ">>)

\* C3 (as claimed): at most one asynchronous operation is outstanding in every
\* reachable state.
C3_AtMostOneOutstanding == Cardinality(tasks) <= 1

\* C3 (amended): every non-empty line other than /quit submitted with Enter
\* starts exactly one asynchronous operation, whatever is still outstanding.
C3_EachLineStartsOne ==
    [][(Submitted /\ Classify(textInput) # "quit") =>
          /\ Cardinality(tasks') = Cardinality(tasks) + 1
          /\ \E t \in tasks' \ tasks :
                t.op = nextOp /\ t.pc = "run" /\ t.userInput = textInput]_vars

C3_Witness ==
    \E t \in tasks : \E u \in tasks : t.op # u.op /\ t.pc = "run" /\ u.pc = "run"

\* C4 (as claimed): when a command completes, exactly one non-user message is
\* appended to the history, whether it returned a result or an error.
C4_OneReplyPerCompletion ==
    [][\A t \in tasks : Delivered(t) =>
          /\ Len(messages') = Len(messages) + 1
          /\ ~messages'[Len(messages')].isUser]_vars

\* C4 (amended): a command that completes with a result appends exactly one
\* non-user message holding it; one that completes with an error appends
\* nothing and its error becomes the session error.
C4_ReplyOrError ==
    [][\A t \in tasks : Delivered(t) =>
          IF t.msg.type = "response"
          THEN /\ messages' = Append(messages, ReplyMessage(t.op, t.msg.content))
               /\ err' = err
          ELSE /\ messages' = messages
               /\ err' = t.msg.content]_vars

C4_Witness ==
    /\ err # NilErr
    /\ Len(messages) = 3
    /\ tasks = {}
    /\ \E i \in 1..3 : ~messages[i].isUser

\* C5: the client's active model and the session handle are written only by
\* the event loop, never by a command running asynchronously.
C5_OnlyLoopWrites ==
    [][CommandStep => (clientModel' = clientModel /\ chatSession' = chatSession)]_vars

C7_EmptySwitchChangesNothing ==
    [][((Submitted /\ textInput = ModelPrefix)
          \/ \E t \in tasks : t.userInput = ModelPrefix /\ t \notin tasks')
         => (messages' = messages /\ currentModel' = currentModel)]_vars

\* C7 (amended): submitting "/model " with nothing after it adds the line
\* itself to the history as a user message and nothing else; the command
\* fails with the empty-name error, which becomes the session error, and the
\* current model, the client's model and the session handle stay as they were.
C7_EmptySwitchFails ==
    [][/\ (Submitted /\ textInput = ModelPrefix) =>
            /\ messages' = Append(messages, UserMessage(nextOp, ModelPrefix))
            /\ \E t \in tasks' \ tasks : t.kind = "switch" /\ t.userInput = ModelPrefix
       /\ \A t \in tasks : (t.userInput = ModelPrefix /\ t \notin tasks') =>
            /\ t.pc = "run" => (Finished(t, ErrorMsg(ErrEmptyModel)) \in tasks'
                                 /\ messages' = messages /\ err' = err)
            /\ t.pc = "done" => (err' = ErrEmptyModel /\ messages' = messages)
            /\ t.pc \in {"run", "done"}
            /\ ~closed'
       /\ ((Submitted /\ textInput = ModelPrefix)
             \/ \E t \in tasks : t.userInput = ModelPrefix /\ t \notin tasks') =>
            /\ currentModel' = currentModel
            /\ clientModel' = clientModel
            /\ chatSession' = chatSession]_vars

C7_Witness ==
    /\ err = ErrEmptyModel
    /\ tasks = {}
    /\ messages = <<UserMessage(1, ModelPrefix)>>
    /\ currentModel = DefaultModel
    /\ clientModel = DefaultModel

\* C8: the user message of a line is in the history from the moment the line
\* is submitted, so the reply of a command stands at a later index than the
\* user message of its line, also when commands overlap.
C8_UserBeforeReply ==
    /\ \A t \in tasks :
         \E j \in 1..Len(messages) :
            messages[j] = UserMessage(t.op, t.userInput)
    /\ \A i \in 1..Len(messages) :
         ~messages[i].isUser =>
            \E j \in 1..(i - 1) : messages[j].isUser /\ messages[j].op = messages[i].op

C8_Witness ==
    /\ Len(messages) = 4
    /\ messages[1].isUser /\ messages[2].isUser
    /\ ~messages[3].isUser /\ messages[3].op = 2
    /\ ~messages[4].isUser /\ messages[4].op = 1

\* C9: an error returned by a command becomes the session error and does not
\* close the session; a line submitted afterwards is dispatched as it would be
\* with no error stored.
C9_ErrorKeepsSessionOpen ==
    [][/\ \A t \in tasks : (Delivered(t) /\ t.msg.type = "error") =>
            (err' = t.msg.content /\ ~closed' /\ messages' = messages)
       /\ (Submitted /\ err # NilErr) =>
            /\ messages' = Append(messages, UserMessage(nextOp, textInput))
            /\ IF Classify(textInput) = "quit"
               THEN closed' /\ tasks' = tasks
               ELSE ~closed' /\ tasks' = tasks \cup {NewTask(nextOp, textInput)}
            /\ err' = err]_vars

C9_Witness ==
    /\ err # NilErr
    /\ ~closed
    /\ \E t \in tasks : t.op = 2 /\ t.pc = "done" /\ t.msg.type = "response"

\* The unstyled form of what a render call was given: the Markdown itself, or,
\* for the prompt heading of generate, the plain heading the code prints.
Unstyled(call) ==
    IF call.site = "prompt"
    THEN <<"Prompt: ">> \o flags.prompt \o <<"\n\nResponse:">>
    ELSE call.markdown

\* View with a failing renderer shows every displayed reply as it is.
ViewFallsBack ==
    \A i \in ViewStartIdx..Len(messages) :
       ~messages[i].isUser =>
          \E k \in 1..Len(View(TRUE)) : View(TRUE)[k] = Item("raw", messages[i].content)

\* C10: whenever the Markdown renderer returns an error, what was to be
\* rendered is still printed, unstyled, at every place that renders: the
\* stream writer, the response of generate, the chat view and the models
\* listing.
C10_RenderErrorFallsBack ==
    /\ \A i \in 1..Len(renderLog) :
         renderLog[i].failed =>
            \E k \in 1..Len(out) : out[k] = Item("raw", Unstyled(renderLog[i]))
    /\ ViewFallsBack

\* C11: after every Write of a streamed generation the buffer is the
\* concatenation of all fragments written so far, in the order delivered, and
\* Write has reported the full length of its fragment and no error, also when
\* rendering failed: a render failure never ends the stream.
C11_BufferIsConcatenation ==
    /\ buffer = Concat(fragments)
    /\ \A i \in 1..Len(renderLog) :
         renderLog[i].site = "stream" =>
            \E k \in 1..Len(fragments) :
               renderLog[i].markdown = Concat(SubSeq(fragments, 1, k))
    /\ fragments # <<>> =>
         writeResult = [n |-> Len(fragments[Len(fragments)]), err |-> NilErr]
    /\ \A k \in 1..Len(out) :
         ~(out[k].kind = "error" /\ Len(out[k].text) >= 3
             /\ out[k].text[3] = "failed to write response: ")

C11_Witness ==
    /\ Len(fragments) = 3
    /\ fragments[1] # <<>> /\ fragments[3] # <<>> /\ fragments[1] # fragments[3]
    /\ \E i \in 1..Len(renderLog) :
         /\ renderLog[i].site = "stream"
         /\ renderLog[i].failed
         /\ renderLog[i].markdown = fragments[1]
    /\ cliPc = "exited"
    /\ out[Len(out)] = Item("text", <<"\n">>)

\* ------------------------------------------------------------------ C12
\* A listing is read back from its Markdown: a heading is the token that opens
\* a group, a bullet the token that opens an entry, and the text of either is
\* the run of characters that follows the token.
RECURSIVE RunFrom(_, _)
RunFrom(md, i) ==
    IF i > Len(md) \/ md[i] \notin {ByteOrder[k] : k \in 1..Len(ByteOrder)}
    THEN <<>>
    ELSE <<md[i]>> \o RunFrom(md, i + 1)

HeadingsOf(md) == {i \in 1..Len(md) : md[i] \in {"## ", "# "}}
BulletsOf(md) == {i \in 1..Len(md) : md[i] = "* **"}
HeadingOfBullet(md, b) == SetMax({h \in HeadingsOf(md) : h < b})

\* Groups ascending, names ascending inside a group, every bullet under a
\* heading, and as many bullets (base, name) as the catalog has such entries.
ListingIsGroupedAndSorted(md, models) ==
    LET hs == HeadingsOf(md)
        bs == BulletsOf(md)
        base == [h \in hs |-> RunFrom(md, h + 1)]
        name == [b \in bs |-> RunFrom(md, b + 1)]
        group == [b \in bs |-> IF \E h \in hs : h < b
                               THEN HeadingOfBullet(md, b) ELSE 0]
    IN  /\ \A h1, h2 \in hs : h1 < h2 => StrLess(base[h1], base[h2])
        /\ \A b \in bs : group[b] # 0
        /\ \A b1, b2 \in bs :
              (b1 < b2 /\ group[b1] = group[b2]) => ~StrLess(name[b2], name[b1])
        /\ \A k \in 1..Len(models) :
              Cardinality({b \in bs : /\ base[group[b]] = models[k].BaseModelID
                                      /\ name[b] = LastPart(models[k].Name)})
                = Cardinality({j \in 1..Len(models) :
                                 /\ models[j].BaseModelID = models[k].BaseModelID
                                 /\ LastPart(models[j].Name) = LastPart(models[k].Name)})
        /\ Cardinality(bs) = Len(models)

\* The answered ListModels request of chat command op.
ListCallOf(op) ==
    {c \in remoteCalls : c.op = op /\ c.call = "ListModels"}

\* C12: whatever catalog ListModels returned, the listing the chat's /models
\* command returns and the listing the models command builds have their group
\* headings ascending, the names of each group ascending, and every catalog
\* entry exactly once under the heading of its own base model ID.
C12_ListingGroupedAndSorted ==
    /\ \A t \in tasks :
         (t.kind = "list" /\ t.msg.type = "response") =>
            /\ ListCallOf(t.op) # {}
            /\ \A c \in ListCallOf(t.op) :
                  ListingIsGroupedAndSorted(t.msg.content, c.models)
    /\ \A i \in 1..Len(renderLog) :
         renderLog[i].site = "models" =>
            ListingIsGroupedAndSorted(renderLog[i].markdown, listedModels)

\* The /models command of a chat has returned the listing of the catalog that
\* arrives with b before a and a-2 before a-1, after an earlier line.
C12_Witness ==
    \E t \in tasks :
       /\ t.kind = "list"
       /\ t.op > 1
       /\ t.msg.type = "response"
       /\ \E c \in ListCallOf(t.op) : c.models = <<InfoB1, InfoA2, InfoA1>>
       /\ Cardinality(BulletsOf(t.msg.content)) = 3
       /\ Cardinality(HeadingsOf(t.msg.content)) = 2

\* A models run has built the listing of the same catalog.
C12_ModelsListed ==
    /\ listedModels = <<InfoB1, InfoA2, InfoA1>>
    /\ \E i \in 1..Len(renderLog) :
         /\ renderLog[i].site = "models"
         /\ Cardinality(BulletsOf(renderLog[i].markdown)) = 3
         /\ Cardinality(HeadingsOf(renderLog[i].markdown)) = 2

\* ------------------------------------------------------------------ C13
\* C13: Enter on an empty input line changes nothing.  While the line is
\* empty no step submits: no operation is numbered or started, no user message
\* enters the history, the current model and the session handle stay, and
\* history and error change only by the delivery of a command that completed.
C13_EmptyEnterChangesNothing ==
    [][textInput = <<>> =>
         /\ ~Submitted
         /\ \A t \in tasks' : \E u \in tasks : u.op = t.op
         /\ \A i \in 1..Len(messages') :
              messages'[i].isUser => (i <= Len(messages) /\ messages[i] = messages'[i])
         /\ (messages' # messages \/ err' # err) => \E t \in tasks : Delivered(t)
         /\ currentModel' = currentModel
         /\ chatSession' = chatSession]_vars

\* Enter can be pressed on an empty line while the session holds a history
\* and a stored error.
C13_Witness ==
    /\ textInput = <<>>
    /\ ~closed
    /\ nextOp <= MaxOps
    /\ messages # <<>>
    /\ err # NilErr
    /\ ENABLED KeyEnter

\* ------------------------------------------------------------------ C14
\* C14: submitting /quit closes the chat session, whatever the history holds,
\* whether an error is stored, and whatever commands are still in flight; the
\* commands in flight are left as they are.
C14_QuitCloses ==
    [][(Submitted /\ textInput = LineQuit) => (closed' /\ tasks' = tasks)]_vars

\* /quit was submitted after an earlier line whose command is still in flight.
C14_Witness ==
    /\ closed
    /\ Len(messages) >= 2
    /\ messages[Len(messages)] = UserMessage(nextOp - 1, LineQuit)
    /\ \E t \in tasks : t.pc # "done"

\* ------------------------------------------------------------------ C15
\* The command printed an error line and gave up: a missing API key, a client
\* that could not be made, a missing prompt, an API error, a failed render.
CommandFailed == \E k \in 1..Len(out) : out[k].kind = "error"

\* C15: the process exits with a non-zero status whenever its command failed
\* (missing API key, client initialisation failure, API error in generate or
\* models).
C15_FailureExitsNonZero ==
    (cliPc = "exited" /\ CommandFailed) => exitCode # 0

\* What the code does: the status is non-zero exactly for a command line
\* cobra rejects.
C15_NonZeroOnlyForUsageError ==
    cliPc = "exited" => (exitCode = 1 <=> flags.usageError) /\ exitCode \in {0, 1}

\* ------------------------------------------------------------------ C16
\* The lines the claim names as commands.
IsCommandLine(line) ==
    \/ HasPrefix(line, ModelPrefix)
    \/ line \in {LineModels, LineListModels, LineHelp, LineQuit}

SendsOf(op) == {c \in remoteCalls : c.op = op /\ c.call = "SendMessage"}

\* C16: a submitted line is sent to the backend as a prompt, unchanged, if and
\* only if it is not a command line (/model with a space after it, /models,
\* /list-models, /help, /quit): a command line is never sent, any other line
\* is sent as it is once its command has run, and /help and /quit make no
\* request of any kind.
C16_PromptSentIffNotCommand ==
    /\ \A i \in 1..Len(messages) :
         messages[i].isUser =>
            LET line == messages[i].content
                op == messages[i].op
            IN  /\ IsCommandLine(line) => SendsOf(op) = {}
                /\ ~IsCommandLine(line) =>
                      \/ \E t \in tasks : t.op = op /\ t.pc = "run"
                      \/ /\ Cardinality(SendsOf(op)) = 1
                         /\ \A c \in SendsOf(op) : c.text = line
                /\ line \in {LineHelp, LineQuit} => {c \in remoteCalls : c.op = op} = {}
    /\ \A c \in remoteCalls :
         \E i \in 1..Len(messages) : messages[i].isUser /\ messages[i].op = c.op

\* /model without a space has been sent as a prompt, and /help has been
\* answered.
C16_Witness ==
    /\ \E c \in remoteCalls : c.call = "SendMessage" /\ c.text = LineModelNoSpace
    /\ \E i \in 1..Len(messages) :
         /\ messages[i] = UserMessage(messages[i].op, LineHelp)
         /\ \E j \in 1..Len(messages) :
              messages[j] = ReplyMessage(messages[i].op, HelpText)

\* ------------------------------------------------------------------ C17
IsPrefixOf(xs, ys) == Len(xs) <= Len(ys) /\ SubSeq(ys, 1, Len(xs)) = xs

\* C17: the history is append-only.  Whatever the event (a submission, a
\* response, an error, a switch that succeeded or failed, a resize), the
\* history before it is a prefix of the history after it.
C17_HistoryAppendOnly ==
    [][IsPrefixOf(messages, messages')]_vars

\* A history that has been through a resize, a successful switch and a failed
\* one and still holds the line of each.
C17_Witness ==
    /\ width = 40
    /\ err = ErrEmptyModel
    /\ tasks = {}
    /\ Len(messages) = 3
    /\ messages[1].isUser
    /\ \E i \in 2..3 : IsSwitched(messages[i])
    /\ \E i \in 2..3 : messages[i].isUser /\ messages[i].content = ModelPrefix

\* ------------------------------------------------------------------ C18
\* The error line of View, which no renderer outcome changes.
ViewShowsError ==
    \A renderFails \in BOOLEAN :
       \E k \in 1..Len(View(renderFails)) : View(renderFails)[k] = ErrorItem(err)

\* C18: no event clears the session error.  From a state with a stored error
\* every step leads to a state with a stored error (the same or a later one),
\* which View displays.
C18_ErrorNeverCleared ==
    [][err # NilErr => (err' # NilErr /\ ViewShowsError')]_vars

\* A failed operation and, after it in the history, the reply of a later
\* operation that succeeded, with the error still stored and displayed.
C18_Witness ==
    /\ err # NilErr
    /\ ViewShowsError
    /\ tasks = {}
    /\ Len(messages) = 3
    /\ messages[1].isUser /\ messages[2].isUser
    /\ messages[3] = ReplyMessage(messages[2].op, <<"o", "k">>)
    /\ messages[2].op > messages[1].op

====
